---- MODULE Spec2Model ----
(***************************************************************************)
(* State-machine model of the App component of client/src/App.tsx: the     *)
(* model loader, predictImage, the webcam start/stop flow with its         *)
(* sampling interval, the upload flow and the unmount cleanup.             *)
(*                                                                         *)
(* The browser runs the component on one event loop: every action below is *)
(* one task (an event handler, a timer callback, or the continuation of an *)
(* awaited promise), and tasks interleave in any order.                    *)
(***************************************************************************)
EXTENDS Integers, Sequences, FiniteSets

\* ---------------------------------------------------------------- bounds
MaxStarts == 2      \* clicks on "Activar Webcam"
MaxCalls == 2       \* interval callbacks fired plus files chosen

\* ------------------------------------------------------ program constants
FRUIT_CLASSES == <<"Manzana", "Platano", "Naranja">>

NULL == "null"              \* JS null held by the model cell
NoPrediction == [null |-> TRUE]   \* JS null held by the prediction cell
NoCall == [id |-> 0, img |-> 0]   \* no predictImage call
NoImage == 0                \* JS null held by the imagePreview cell
Undefined == "undefined"    \* JS undefined: an array read out of range
NoTimer == 0                \* intervalRef.current = null (falsy, like 0)
NoStream == 0               \* video.srcObject = null
NaN == -1                   \* code of the float NaN (real values are >= 0)
NegInf == -2                \* code of -Infinity: Math.max() of no arguments
Scale == 10                 \* probabilities are held in tenths: 7 is 0.7

\* ------------------------------------------------------------------ state
VARIABLES
    model,          \* useState model: NULL or the loaded handle
    isModelLoading, \* useState isModelLoading
    webcamActive,   \* useState webcamActive
    prediction,     \* useState prediction: NoPrediction or [fruit, confidence]
    imagePreview,   \* useState imagePreview: NoImage or the image shown
    videoCurrent,   \* videoRef.current # null (the <video> is mounted)
    srcObject,      \* videoRef.current.srcObject: NoStream or a stream id
    intervalRef,    \* intervalRef.current: NoTimer or a timer id
    mounted,        \* the component is mounted
    loadPc,         \* position of loadModel: "loading", "ready", "failed"
    alerts,         \* alert() dialogs shown so far
    pendingGrants,  \* startWebcam calls awaiting getUserMedia
    nStarts,        \* startWebcam calls so far
    nStreams,       \* streams acquired so far (ids 1..nStreams)
    liveStreams,    \* acquired streams with a track not yet stopped
    nTimers,        \* setInterval calls so far (ids 1..nTimers)
    timers,         \* interval timers set and not cleared
    nTicks,         \* interval callbacks fired so far
    uploads,        \* images of the files being read and decoded
    nUploads,       \* files chosen so far (image ids 1..nUploads)
    inflight,       \* predictImage calls awaiting predictions.data()
    nInvoked,       \* predictImage calls so far
    nCalls,         \* predictImage calls that passed the model guard
    liveTensors,    \* tensors allocated and not disposed
    nPred,          \* setPrediction calls with a Prediction so far
    lastOutput,     \* the vector the last setPrediction was computed from
    predBy          \* the predictImage call that last set the Prediction

vars == <<model, isModelLoading, webcamActive, prediction, imagePreview,
          videoCurrent, srcObject, intervalRef, mounted, loadPc, alerts,
          pendingGrants, nStarts, nStreams, liveStreams, nTimers, timers,
          nTicks, uploads, nUploads, inflight, nInvoked, nCalls, liveTensors,
          nPred,
          lastOutput, predBy>>

loadVars == <<model, isModelLoading, loadPc>>
grantVars == <<pendingGrants, nStarts, nStreams, nTimers>>
stopVars == <<liveStreams, srcObject, timers, intervalRef, webcamActive>>
uploadVars == <<uploads, nUploads, imagePreview>>
inferVars == <<inflight, nInvoked, nCalls, liveTensors>>
predVars == <<prediction, nPred, lastOutput, predBy>>

Init ==
    /\ model = NULL
    /\ isModelLoading = TRUE
    /\ webcamActive = FALSE
    /\ prediction = NoPrediction
    /\ imagePreview = NoImage
    /\ videoCurrent = FALSE
    /\ srcObject = NoStream
    /\ intervalRef = NoTimer
    /\ mounted = TRUE
    /\ loadPc = "loading"
    /\ alerts = {}
    /\ pendingGrants = 0
    /\ nStarts = 0
    /\ nStreams = 0
    /\ liveStreams = {}
    /\ nTimers = 0
    /\ timers = {}
    /\ nTicks = 0
    /\ uploads = {}
    /\ nUploads = 0
    /\ inflight = {}
    /\ nInvoked = 0
    /\ nCalls = 0
    /\ liveTensors = 0
    /\ nPred = 0
    /\ lastOutput = <<>>
    /\ predBy = NoCall

\* ------------------------------------------------- predictImage, the maths
\* Math.max of two floats: NaN if either is NaN.
MaxOf2(a, b) ==
    IF a = NaN \/ b = NaN THEN NaN ELSE IF a >= b THEN a ELSE b

\* Math.max(...Array.from(probabilities)): -Infinity for no arguments.
RECURSIVE MathMax(_)
MathMax(v) ==
    IF v = <<>> THEN NegInf ELSE MaxOf2(Head(v), MathMax(Tail(v)))

\* JS strict equality on floats: NaN equals nothing, itself included.
StrictEq(a, b) == a # NaN /\ b # NaN /\ a = b

\* probabilities.indexOf(x): the first 0-based index holding x, or -1.
RECURSIVE IndexOfFrom(_, _, _)
IndexOfFrom(v, x, i) ==
    IF i >= Len(v) THEN -1
    ELSE IF StrictEq(v[i + 1], x) THEN i
    ELSE IndexOfFrom(v, x, i + 1)

\* Mutant of IndexOf: lastIndexOf, the last index holding x.
RECURSIVE LastIndexOfFrom(_, _, _)
LastIndexOfFrom(v, x, i) ==
    IF i < 0 THEN -1
    ELSE IF StrictEq(v[i + 1], x) THEN i
    ELSE LastIndexOfFrom(v, x, i - 1)

LastIndexOf(v, x) == LastIndexOfFrom(v, x, Len(v) - 1)

IndexOf(v, x) == IndexOfFrom(v, x, 0)

\* probabilities[maxIndex] * 100, in percent: undefined * 100 is NaN.
ConfidenceAt(v, maxIndex) ==
    IF maxIndex >= 0 /\ maxIndex < Len(v) /\ v[maxIndex + 1] # NaN
    THEN (v[maxIndex + 1] * 100) \div Scale
    ELSE NaN

\* FRUIT_CLASSES[maxIndex]: undefined out of range.
FruitAt(maxIndex) ==
    IF maxIndex >= 0 /\ maxIndex < Len(FRUIT_CLASSES)
    THEN FRUIT_CLASSES[maxIndex + 1]
    ELSE Undefined

\* The Prediction predictImage builds from the output vector v.
MakePrediction(v) ==
    LET maxIndex == IndexOf(v, MathMax(v))
    IN  [fruit |-> FruitAt(maxIndex), confidence |-> ConfidenceAt(v, maxIndex)]

\* ------------------------------------------------------------ model loader
\* The loaded tf.LayersModel.
LoadedModel == "LayersModel"

\* loadModel, try branch to its end: setModel, then finally. The render
\* that follows mounts the <video> element and attaches videoRef.
LoadModelOk ==
    /\ loadPc = "loading"
    /\ model' = LoadedModel
    /\ isModelLoading' = FALSE
    /\ loadPc' = "ready"
    /\ videoCurrent' = mounted
    /\ UNCHANGED <<alerts, mounted, grantVars, stopVars, nTicks, uploadVars,
                   inferVars, predVars>>

\* Mutant of LoadModelFail: setModel is called before compile, which throws.
LoadModelFailAfterSetModel ==
    /\ loadPc = "loading"
    /\ model' = LoadedModel
    /\ alerts' = alerts \cup {"model"}
    /\ isModelLoading' = FALSE
    /\ loadPc' = "failed"
    /\ videoCurrent' = mounted
    /\ UNCHANGED <<mounted, grantVars, stopVars, nTicks, uploadVars,
                   inferVars, predVars>>

\* Mutant of LoadModelFail: the catch starts the load again.
LoadModelFailRetries ==
    /\ loadPc = "loading"
    /\ alerts' = alerts \cup {"model"}
    /\ isModelLoading' = FALSE
    /\ UNCHANGED <<model, loadPc, videoCurrent, mounted, grantVars, stopVars,
                   nTicks, uploadVars, inferVars, predVars>>

\* loadModel, tf.ready / loadLayersModel / compile throws: catch, finally.
LoadModelFail ==
    /\ loadPc = "loading"
    /\ alerts' = alerts \cup {"model"}
    /\ isModelLoading' = FALSE
    /\ loadPc' = "failed"
    /\ UNCHANGED <<model, videoCurrent, mounted, grantVars, stopVars, nTicks,
                   uploadVars, inferVars, predVars>>

\* The webcam and upload controls are rendered (and so can be clicked).
ControlsRendered == mounted /\ ~isModelLoading /\ model # NULL

\* ------------------------------------------------------------ predictImage
\* Mutant of PredictImage: the guard on the model handle is left out.
PredictImageNoGuard(img) ==
    /\ nInvoked' = nInvoked + 1
    /\ nCalls' = nCalls + 1
    /\ \/ UNCHANGED <<inflight, liveTensors>>
       \/ /\ liveTensors' = liveTensors + 1
          /\ UNCHANGED inflight
       \/ /\ liveTensors' = liveTensors + 2
          /\ inflight' = inflight \cup {[id |-> nCalls + 1, img |-> img]}

\* predictImage(img) up to its await of predictions.data(): the guard, the
\* preprocessing (tf.tidy keeps only the returned tensor) and model.predict.
\* Either step may throw into the catch, which disposes nothing.
PredictImage(img) ==
    /\ nInvoked' = nInvoked + 1
    /\ IF model = NULL
       THEN UNCHANGED <<inflight, nCalls, liveTensors>>
       ELSE /\ nCalls' = nCalls + 1
            /\ \/ UNCHANGED <<inflight, liveTensors>>
               \/ /\ liveTensors' = liveTensors + 1
                  /\ UNCHANGED inflight
               \/ /\ liveTensors' = liveTensors + 2
                  /\ inflight' = inflight \cup {[id |-> nCalls + 1, img |-> img]}

\* Mutant of PredictFinish: a Prediction already shown is kept.
PredictFinishKeepsFirst(c, v) ==
    /\ c \in inflight
    /\ inflight' = inflight \ {c}
    /\ prediction' = IF prediction = NoPrediction THEN MakePrediction(v)
                                                 ELSE prediction
    /\ nPred' = nPred + 1
    /\ lastOutput' = v
    /\ predBy' = c
    /\ liveTensors' = liveTensors - 2
    /\ UNCHANGED <<loadVars, alerts, videoCurrent, mounted, grantVars,
                   stopVars, nTicks, uploadVars, nInvoked, nCalls>>

\* Mutant of PredictFinish: the new result is added to the one shown.
PredictFinishAppends(c, v) ==
    /\ c \in inflight
    /\ inflight' = inflight \ {c}
    /\ prediction' = IF prediction = NoPrediction
                     THEN MakePrediction(v)
                     ELSE [fruit |-> MakePrediction(v).fruit,
                           confidence |-> MakePrediction(v).confidence,
                           prev |-> prediction]
    /\ nPred' = nPred + 1
    /\ lastOutput' = v
    /\ predBy' = c
    /\ liveTensors' = liveTensors - 2
    /\ UNCHANGED <<loadVars, alerts, videoCurrent, mounted, grantVars,
                   stopVars, nTicks, uploadVars, nInvoked, nCalls>>

\* predictions.data() resolves with the vector v: the rest of the try block.
PredictFinish(c, v) ==
    /\ c \in inflight
    /\ inflight' = inflight \ {c}
    /\ prediction' = MakePrediction(v)
    /\ nPred' = nPred + 1
    /\ lastOutput' = v
    /\ predBy' = c
    /\ liveTensors' = liveTensors - 2
    /\ UNCHANGED <<loadVars, alerts, videoCurrent, mounted, grantVars,
                   stopVars, nTicks, uploadVars, nInvoked, nCalls>>

\* console.error calls of predictImage's catch so far: every call past the
\* guard ends in setPrediction or in the catch.
NErrors == nCalls - nPred - Cardinality(inflight)

\* Mutant of PredictDataFail: the catch also clears the Prediction.
PredictDataFailClears(c) ==
    /\ c \in inflight
    /\ inflight' = inflight \ {c}
    /\ prediction' = NoPrediction
    /\ lastOutput' = <<>>
    /\ predBy' = NoCall
    /\ UNCHANGED <<loadVars, alerts, videoCurrent, mounted, grantVars,
                   stopVars, nTicks, uploadVars, nInvoked, nCalls, liveTensors,
                   nPred>>

\* predictions.data() rejects: the catch logs, nothing else runs.
PredictDataFail(c) ==
    /\ c \in inflight
    /\ inflight' = inflight \ {c}
    /\ UNCHANGED <<loadVars, alerts, videoCurrent, mounted, grantVars,
                   stopVars, nTicks, uploadVars, nInvoked, nCalls, liveTensors,
                   predVars>>

\* -------------------------------------------------------------- webcam flow
\* startWebcam up to its await: getUserMedia is requested.
StartWebcam ==
    /\ ControlsRendered
    /\ ~webcamActive
    /\ nStarts < MaxStarts
    /\ nStarts' = nStarts + 1
    /\ pendingGrants' = pendingGrants + 1
    /\ UNCHANGED <<loadVars, alerts, videoCurrent, mounted, nStreams, nTimers,
                   stopVars, nTicks, uploadVars, inferVars, predVars>>

\* getUserMedia resolves with a new stream: the rest of the try block.
GrantCamera ==
    /\ pendingGrants > 0
    /\ pendingGrants' = pendingGrants - 1
    /\ nStreams' = nStreams + 1
    /\ liveStreams' = liveStreams \cup {nStreams + 1}
    /\ IF videoCurrent
       THEN /\ srcObject' = nStreams + 1
            /\ webcamActive' = TRUE
            /\ nTimers' = nTimers + 1
            /\ intervalRef' = nTimers + 1
            /\ timers' = timers \cup {nTimers + 1}
       ELSE UNCHANGED <<srcObject, webcamActive, nTimers, intervalRef, timers>>
    /\ UNCHANGED <<loadVars, alerts, videoCurrent, mounted, nStarts, nTicks,
                   uploadVars, inferVars, predVars>>

\* Camera requests denied so far: every startWebcam call is pending, was
\* granted a stream, or was denied.
NDenied == nStarts - nStreams - pendingGrants

\* Mutant of DenyCamera: the catch asks for the camera again.
DenyCameraRetries ==
    /\ pendingGrants > 0
    /\ nStarts < MaxStarts
    /\ nStarts' = nStarts + 1
    /\ alerts' = alerts \cup {"camera"}
    /\ UNCHANGED <<loadVars, videoCurrent, mounted, pendingGrants, nStreams,
                   nTimers, stopVars, nTicks, uploadVars, inferVars, predVars>>

\* getUserMedia rejects: the catch of startWebcam.
DenyCamera ==
    /\ pendingGrants > 0
    /\ pendingGrants' = pendingGrants - 1
    /\ alerts' = alerts \cup {"camera"}
    /\ UNCHANGED <<loadVars, videoCurrent, mounted, nStarts, nStreams, nTimers,
                   stopVars, nTicks, uploadVars, inferVars, predVars>>

\* The interval callback of timer t fires.
Tick(t) ==
    /\ t \in timers
    /\ nTicks + nUploads < MaxCalls
    /\ nTicks' = nTicks + 1
    /\ IF videoCurrent /\ model # NULL
       THEN PredictImage(0)
       ELSE UNCHANGED inferVars
    /\ UNCHANGED <<loadVars, alerts, videoCurrent, mounted, grantVars,
                   stopVars, uploadVars, predVars>>

\* Mutant of StopWebcam: setPrediction(null) is left out.
StopWebcamKeepsPrediction(ref) ==
    /\ IF ref /\ srcObject # NoStream
       THEN /\ liveStreams' = liveStreams \ {srcObject}
            /\ srcObject' = NoStream
       ELSE UNCHANGED <<liveStreams, srcObject>>
    /\ IF intervalRef # NoTimer
       THEN /\ timers' = timers \ {intervalRef}
            /\ intervalRef' = NoTimer
       ELSE UNCHANGED <<timers, intervalRef>>
    /\ webcamActive' = FALSE
    /\ UNCHANGED <<prediction, lastOutput, predBy>>

\* The body of stopWebcam; ref tells whether videoRef.current is non-null.
StopWebcam(ref) ==
    /\ IF ref /\ srcObject # NoStream
       THEN /\ liveStreams' = liveStreams \ {srcObject}
            /\ srcObject' = NoStream
       ELSE UNCHANGED <<liveStreams, srcObject>>
    /\ IF intervalRef # NoTimer
       THEN /\ timers' = timers \ {intervalRef}
            /\ intervalRef' = NoTimer
       ELSE UNCHANGED <<timers, intervalRef>>
    /\ webcamActive' = FALSE
    /\ prediction' = NoPrediction
    /\ lastOutput' = <<>>
    /\ predBy' = NoCall

\* A click on "Detener Webcam".
StopButton ==
    /\ ControlsRendered
    /\ webcamActive
    /\ StopWebcam(videoCurrent)
    /\ UNCHANGED <<loadVars, alerts, videoCurrent, mounted, grantVars, nTicks,
                   uploadVars, inferVars, nPred>>

\* The component unmounts: React detaches videoRef and runs the effect
\* cleanup, which calls stopWebcam. Which of the two comes first depends on
\* the React version, so the cleanup may see videoRef.current as it was or
\* already null.
Unmount ==
    /\ mounted
    /\ mounted' = FALSE
    /\ videoCurrent' = FALSE
    /\ \E ref \in {videoCurrent, FALSE} : StopWebcam(ref)
    /\ UNCHANGED <<loadVars, alerts, grantVars, nTicks, uploadVars, inferVars,
                   nPred>>

\* -------------------------------------------------------------- upload flow
\* handleImageUpload with a file chosen (with none it returns at once):
\* the FileReader starts reading it.
HandleImageUpload ==
    /\ ControlsRendered
    /\ nTicks + nUploads < MaxCalls
    /\ nUploads' = nUploads + 1
    /\ uploads' = uploads \cup {nUploads + 1}
    /\ UNCHANGED <<loadVars, alerts, videoCurrent, mounted, grantVars,
                   stopVars, nTicks, imagePreview, inferVars, predVars>>

\* reader.onload, which only hands the data URL to a new Image, and then
\* img.onload: the preview is set and predictImage(img) is called.
ImgOnload(img) ==
    /\ img \in uploads
    /\ uploads' = uploads \ {img}
    /\ imagePreview' = img
    /\ PredictImage(img)
    /\ UNCHANGED <<loadVars, alerts, videoCurrent, mounted, grantVars,
                   stopVars, nTicks, nUploads, predVars>>

\* ---------------------------------------------------------- specifications
\* Output vectors of the loaded network used in the whole-program runs.
SampleOutputs == {<<1, 7, 2>>, <<7, 7, 2>>}

Next ==
    \/ LoadModelOk
    \/ LoadModelFail
    \/ StartWebcam
    \/ GrantCamera
    \/ DenyCamera
    \/ \E t \in timers : Tick(t)
    \/ StopButton
    \/ Unmount
    \/ HandleImageUpload
    \/ \E img \in uploads : ImgOnload(img)
    \/ \E c \in inflight, v \in SampleOutputs : PredictFinish(c, v)
    \/ \E c \in inflight : PredictDataFail(c)

Spec == Init /\ [][Next]_vars

\* predictImage called on its own, whatever the state of the model handle.
CallPredictImage ==
    /\ nInvoked < MaxCalls
    /\ PredictImage(0)
    /\ UNCHANGED <<loadVars, alerts, videoCurrent, mounted, grantVars,
                   stopVars, nTicks, uploadVars, predVars>>

NextCall ==
    \/ LoadModelOk
    \/ LoadModelFail
    \/ CallPredictImage
    \/ HandleImageUpload
    \/ \E img \in uploads : ImgOnload(img)
    \/ \E c \in inflight, v \in SampleOutputs : PredictFinish(c, v)
    \/ \E c \in inflight : PredictDataFail(c)

SpecCall == Init /\ [][NextCall]_vars

\* The load settles: tf.ready and loadLayersModel resolve or reject, and the
\* event loop then runs the rest of loadModel.
SpecLive == Spec /\ WF_vars(LoadModelOk \/ LoadModelFail)

\* The inference engine on its own: uploads to a loaded model that may
\* return any vector of ModelOutputs.
MaxOutLen == 3      \* longest output vector the network returns
ProbValues == {1, 2, 7}
ProbVectors == [1..Len(FRUIT_CLASSES) -> ProbValues]
NaNVectors == {[v EXCEPT ![i] = NaN] : v \in ProbVectors, i \in 1..Len(FRUIT_CLASSES)}
ModelOutputs == NaNVectors \cup UNION {[1..n -> ProbValues] : n \in 0..MaxOutLen}

NextInfer ==
    \/ LoadModelOk
    \/ HandleImageUpload
    \/ \E img \in uploads : ImgOnload(img)
    \/ \E c \in inflight, v \in ModelOutputs : PredictFinish(c, v)

SpecInfer == Init /\ [][NextInfer]_vars

\* ------------------------------------------------------------------ claims
\* The webcam flow is Inactive: no stream attached, no timer, flag off.
Inactive == ~webcamActive /\ srcObject = NoStream /\ intervalRef = NoTimer

\* C1: after any sequence of startWebcam and stopWebcam calls and grant
\* completions, at most one sampling interval timer is running.
C1_AtMostOneTimer == Cardinality(timers) <= 1

\* C2: once stopWebcam has run or the component is torn down (the flow is
\* not Active and no grant is pending, yet streams were acquired), no
\* acquired stream still has a live track.
C2_StreamsReleased ==
    (nStreams > 0 /\ ~webcamActive /\ pendingGrants = 0) => liveStreams = {}

\* C3: every tensor a predictImage call allocated is disposed when the call
\* finishes: the live tensors are those of the calls still in flight.
C3_TensorsDisposed == liveTensors = 2 * Cardinality(inflight)

\* C4: a stopWebcam (stop button or teardown) that runs while the webcam is
\* Active leaves no running timer, the attached stream's tracks stopped,
\* srcObject cleared, the Prediction null and webcamActive false.
C4_StopResets ==
    [][(webcamActive /\ (StopButton \/ Unmount)) =>
          /\ timers' = {}
          /\ srcObject \notin liveStreams'
          /\ srcObject' = NoStream
          /\ prediction' = NoPrediction
          /\ webcamActive' = FALSE]_vars

\* C5: a stopWebcam that runs while the webcam is Inactive (only the
\* teardown calls it then) leaves the whole state unchanged: the Prediction,
\* the preview, the model handle and the webcam flags.
C5_StopInactiveNoChange ==
    [][(Inactive /\ Unmount) =>
          UNCHANGED <<model, isModelLoading, webcamActive, prediction,
                      imagePreview, srcObject, intervalRef, timers,
                      liveStreams>>]_vars

\* C6: after a failed model load the model handle is null and loading has
\* finished, and no inference is ever started nor any Prediction set.
C6_NoInferenceAfterLoadFailure ==
    loadPc = "failed" =>
        /\ model = NULL
        /\ ~isModelLoading
        /\ "model" \in alerts
        /\ nCalls = 0
        /\ inflight = {}
        /\ nPred = 0
        /\ prediction = NoPrediction

\* C6 witness: the load has failed and a later event (the teardown, which
\* calls stopWebcam) has run.
C6_Witness == loadPc = "failed" /\ ~mounted

\* The C7 scenario: one startWebcam, granted, one interval elapsed, no upload.
C7_Scenario == nStarts = 1 /\ nStreams = 1 /\ nTicks = 1 /\ nUploads = 0

C8_FirstMaxLabel ==
    (prediction # NoPrediction /\ lastOutput \in ProbVectors) =>
        /\ \E i \in 1..Len(FRUIT_CLASSES) :
              /\ \A j \in 1..Len(FRUIT_CLASSES) : lastOutput[j] <= lastOutput[i]
              /\ \A j \in 1..(i - 1) : lastOutput[j] < lastOutput[i]
              /\ prediction.fruit = FRUIT_CLASSES[i]
              /\ prediction.confidence * Scale = lastOutput[i] * 100
        /\ (lastOutput = <<1, 7, 2>> =>
              prediction = [fruit |-> FRUIT_CLASSES[2], confidence |-> 70])

\* C8 witness: the vector [0.1, 0.7, 0.2] has been predicted on.
C8_Witness ==
    /\ lastOutput = <<1, 7, 2>>
    /\ prediction = [fruit |-> "Platano", confidence |-> 70]

\* C9: the Prediction is null or holds one of the three class names and a
\* confidence within [0, 100], whatever vector the model returned.
C9_PredictionWellFormed ==
    prediction # NoPrediction =>
        /\ prediction.fruit \in {FRUIT_CLASSES[i] : i \in 1..Len(FRUIT_CLASSES)}
        /\ prediction.confidence \in 0..100

\* C10 as stated: no two predictImage calls are in flight at once.
C10_SingleInflight == Cardinality(inflight) <= 1

\* C10 amended: calls may overlap, but every write of a Prediction is made
\* by exactly one call as it completes and stores that call's result, and
\* the Prediction changes in no other way than such a write or a clear.
C10_OneWriterPerWrite ==
    [][/\ (nPred' # nPred =>
              /\ nPred' = nPred + 1
              /\ \E c \in inflight :
                    /\ inflight' = inflight \ {c}
                    /\ predBy' = c
              /\ prediction' = MakePrediction(lastOutput'))
       /\ (prediction' # prediction =>
              nPred' # nPred \/ prediction' = NoPrediction)]_vars

\* C10 witness: a call has written the Prediction while a call started
\* before it is still in flight.
C10_Witness == predBy # NoCall /\ \E c \in inflight : c.id < predBy.id

\* C11: a predictImage call that fails in its forward pass is caught: the
\* Prediction keeps its value and the timers, the pending uploads and the
\* model are untouched; after a failure every tick that finds the video and
\* the model, and every decoded upload, still starts an inference.
C11_InferenceErrorContained ==
    [][/\ (NErrors' > NErrors =>
              /\ UNCHANGED <<prediction, nPred, model, timers, intervalRef,
                             webcamActive, alerts>>
              /\ uploads' \subseteq uploads)
       /\ (NErrors > 0 /\ nTicks' # nTicks /\ videoCurrent /\ model # NULL =>
              nCalls' = nCalls + 1)
       /\ (NErrors > 0 /\ uploads' # uploads /\ nUploads' = nUploads =>
              nCalls' = nCalls + 1)]_vars

\* C11 witness: the first call's model.predict threw (its input tensor is
\* the one live tensor), and the second call then set the Prediction.
C11_Witness ==
    /\ NErrors = 1
    /\ liveTensors = 1
    /\ predBy.id = 2
    /\ prediction # NoPrediction

\* C12: a startWebcam whose camera request is denied shows the alert and
\* leaves the webcam flow as it was, Inactive if it was Inactive: no timer
\* is created, no stream is acquired or attached, no new request is made.
C12_DenialStaysInactive ==
    [][NDenied' > NDenied =>
          /\ "camera" \in alerts'
          /\ UNCHANGED <<webcamActive, timers, nTimers, intervalRef,
                         srcObject, liveStreams, nStreams, nStarts>>
          /\ (Inactive => Inactive')]_vars

\* C12 witness: the only camera request was denied and the flow is Inactive.
C12_Witness ==
    /\ "camera" \in alerts
    /\ NDenied = 1
    /\ nStarts = 1
    /\ Inactive
    /\ timers = {}
    /\ nStreams = 0

\* C13: the loader starts in Loading (isModelLoading, no model), eventually
\* leaves it, and then is Ready (model set) or Failed (model null, alert
\* shown); once it has left Loading, isModelLoading, the model handle and
\* the loader's position never change again.
C13_LoaderSettlesOnce ==
    /\ (isModelLoading = TRUE /\ model = NULL /\ loadPc = "loading")
    /\ <>(isModelLoading = FALSE)
    /\ [](isModelLoading => model = NULL /\ loadPc = "loading")
    /\ [](~isModelLoading =>
            \/ model = LoadedModel /\ loadPc = "ready"
            \/ model = NULL /\ loadPc = "failed" /\ "model" \in alerts)
    /\ [][~isModelLoading => UNCHANGED <<isModelLoading, model, loadPc>>]_vars

\* C13 witness: the load failed and the program went on (the flow was torn
\* down) with the loader still Failed.
C13_Witness ==
    /\ ~isModelLoading
    /\ model = NULL
    /\ "model" \in alerts
    /\ ~mounted

\* C14: the state holds at most one Prediction (null, or one label with one
\* confidence), and when the inference of another upload completes while an
\* upload's Prediction is shown, the Prediction becomes that call's result.
C14_SecondUploadReplaces ==
    /\ [](prediction = NoPrediction
            \/ DOMAIN prediction = {"fruit", "confidence"})
    /\ [][(/\ prediction # NoPrediction
           /\ predBy.img # 0
           /\ nPred' = nPred + 1
           /\ predBy'.img \notin {0, predBy.img}) =>
              /\ predBy' \in inflight
              /\ prediction' = MakePrediction(lastOutput')]_vars

\* C14 witness: two uploads, each has set the Prediction, the second last.
C14_Witness ==
    /\ nUploads = 2
    /\ nPred = 2
    /\ predBy = [id |-> 2, img |-> 2]
    /\ prediction = MakePrediction(lastOutput)

\* C15: a predictImage call made while the model handle is absent changes
\* nothing: no tensor is allocated, no forward pass starts, the Prediction
\* and everything else stay as they were.
C15_NoModelNoOp ==
    [][(nInvoked' # nInvoked /\ model = NULL) =>
          UNCHANGED <<model, isModelLoading, webcamActive, prediction,
                      imagePreview, videoCurrent, srcObject, intervalRef,
                      mounted, loadPc, alerts, pendingGrants, nStarts,
                      nStreams, liveStreams, nTimers, timers, nTicks, uploads,
                      nUploads, inflight, nCalls, liveTensors, nPred,
                      lastOutput, predBy>>]_vars

\* C15 witness: predictImage has been called with no model handle.
C15_Witness == model = NULL /\ nInvoked > 0 /\ nCalls = 0

\* C16: once stopWebcam has cleared the Prediction (the component is
\* mounted, the flow not Active) and no upload was ever made, the
\* Prediction is null: no inference a tick started sets it after the stop.
C16_NoPredictionAfterStop ==
    (mounted /\ ~webcamActive /\ nUploads = 0) => prediction = NoPrediction

\* C17: a sampling timer is running if and only if webcamActive is true.
C17_FlagAgreesWithTimer == webcamActive <=> timers # {}

\* C18: with the webcam never started and every upload's inference
\* completed without error, the Prediction shown was computed from the
\* image shown as the preview.
C18_PredictionMatchesPreview ==
    (/\ nStarts = 0
     /\ uploads = {}
     /\ inflight = {}
     /\ NErrors = 0
     /\ prediction # NoPrediction) => predBy.img = imagePreview

====
